---- MODULE Spec2Model ----
(***************************************************************************)
(* The hybrid recommendation engine of WeBook: HybridRecommender of        *)
(* app/ml/recommender.py and the shared instance of                        *)
(* app/routes/recommendations.py.                                          *)
(*                                                                         *)
(* Numbers.  The engine computes with floating point values.  The model    *)
(* computes the same quantities in fixed point: a similarity or a rating   *)
(* average x is the integer floor(x * Scale); an inverse document          *)
(* frequency is kept in tenths (IdfUnit).  A Python list is a sequence, a  *)
(* Python None is the value None, a raised exception is the value          *)
(* Raise(kind).  Sequences are 1-based: a Python position p is the model   *)
(* position p + 1.                                                         *)
(***************************************************************************)
EXTENDS Integers, Sequences, FiniteSets, TLC

VARIABLES
    books_df,                   \* self.books_df
    content_similarity_matrix,  \* self.content_similarity_matrix
    ratings_matrix,             \* self.ratings_matrix
    knn_model,                  \* self.knn_model
    fit_pc,                     \* where a running fit() stands
    fit_call,                   \* the running fit(): its arguments, the fields at its start
    snapshot,                   \* history: what the engine was last trained on
    ever_trained,               \* history: some fit() has returned
    last,                       \* the last call made on the engine and its outcome
    rating_rows,                \* the rows of the Rating table
    book_stats,                 \* Book.average_rating and Book.ratings_count of every book
    requests,                   \* the rating requests: where each stands, and its locals
    visits                      \* the requests to the recommendation pages, likewise

vars == <<books_df, content_similarity_matrix, ratings_matrix, knn_model,
          fit_pc, fit_call, snapshot, ever_trained, last,
          rating_rows, book_stats, requests, visits>>

-----------------------------------------------------------------------------
(* Bounds of the model. *)

MaxBook == 2        \* book ids are 1..MaxBook
MaxUser == 2        \* user ids are 1..MaxUser
MaxTopN == 2        \* top_n arguments are 1..MaxTopN
MaxRequest == 2     \* rating requests are 1..MaxRequest, each served once

(* Constants of the program. *)

max_features == 500     \* TfidfVectorizer(max_features=500, ...)
KnnNeighbors == 10      \* n_neighbors=min(10, len(self.ratings_matrix))
DefaultWeight == 50     \* content_weight=0.5, in hundredths
DefaultTopN == 10       \* top_n=10
RouteTopN == 20         \* top_n=20 of the routes

Scale == 10 * 100       \* fixed point unit of similarities and averages
IdfUnit == 2 * 5        \* fixed point unit of inverse document frequencies
WeightUnit == 10 * 10   \* content_weight 1.0, in hundredths

-----------------------------------------------------------------------------
(* Python values. *)

None == [none |-> TRUE]

Ok(v) == [ok |-> TRUE, value |-> v]

\* a numpy array
Array(rows) == [array |-> rows]
Raise(kind) == [ok |-> FALSE, error |-> kind]

Min(a, b) == IF a < b THEN a ELSE b
Max(a, b) == IF a > b THEN a ELSE b

Range(s) == {s[i] : i \in 1..Len(s)}

\* The sequence s itself, with its elements computed once.
Eager(s) == s \o <<>>

\* A slice bound as Python clamps it for a list of length n.
PyBound(i, n) == IF i < 0 THEN Max(i + n, 0) ELSE Min(i, n)

\* s[start:stop]
PySlice(s, start, stop) ==
    LET lo == PyBound(start, Len(s))
        hi == PyBound(stop, Len(s))
    IN  IF lo >= hi THEN <<>> ELSE SubSeq(s, lo + 1, hi)

RECURSIVE Concat(_)
\* ' '.join(list): the words of the joined strings, in order.
Concat(list) ==
    IF list = <<>> THEN <<>> ELSE Head(list) \o Concat(Tail(list))

RECURSIVE InsertDesc_BeforeEqual(_, _)
\* x put into a list sorted by descending score, before the entries of its
\* own score: what an ascending sort read backwards does with equal scores.
InsertDesc_BeforeEqual(sorted, x) ==
    IF sorted = <<>> THEN <<x>>
    ELSE IF Head(sorted).score > x.score
         THEN <<Head(sorted)>> \o InsertDesc_BeforeEqual(Tail(sorted), x)
         ELSE <<x>> \o sorted

RECURSIVE InsertDesc(_, _)
\* x put into a list sorted by descending score, behind every entry whose
\* score is at least x's.
InsertDesc(sorted, x) ==
    IF sorted = <<>> THEN <<x>>
    ELSE IF Head(sorted).score >= x.score
         THEN <<Head(sorted)>> \o InsertDesc(Tail(sorted), x)
         ELSE <<x>> \o sorted

RECURSIVE SortedDescFrom(_, _)
SortedDescFrom(done, rest) ==
    IF rest = <<>> THEN done
    ELSE SortedDescFrom(InsertDesc(done, Head(rest)), Tail(rest))

\* sorted(items, key=score, reverse=True): stable, equal scores keep their order.
SortedDesc(items) == SortedDescFrom(<<>>, items)

RECURSIVE IsqrtIn(_, _, _)
IsqrtIn(x, lo, hi) ==
    IF lo >= hi THEN lo
    ELSE LET mid == (lo + hi + 1) \div 2
         IN  IF mid * mid <= x THEN IsqrtIn(x, mid, hi) ELSE IsqrtIn(x, lo, mid - 1)

\* floor(sqrt(x)) for 0 <= x < 2^31
Isqrt(x) == IsqrtIn(x, 0, 46340)

RECURSIVE SumSeq(_)
SumSeq(s) == IF s = <<>> THEN 0 ELSE Head(s) + SumSeq(Tail(s))

RECURSIVE SetToSeq(_)
SetToSeq(S) ==
    IF S = {} THEN <<>>
    ELSE LET x == CHOOSE y \in S : TRUE IN <<x>> \o SetToSeq(S \ {x})

RECURSIVE SortedInts(_)
\* the integers of S in ascending order (the labels of a pivot table)
SortedInts(S) ==
    IF S = {} THEN <<>>
    ELSE LET m == CHOOSE y \in S : \A z \in S : y <= z IN <<m>> \o SortedInts(S \ {m})

-----------------------------------------------------------------------------
(* The snapshots handed to fit(): Book and Rating rows of the database.    *)
(* A string is written Str(words), the sequence of its words; a column     *)
(* that holds a JSON list is written Json(list); a NULL column is None.    *)

Str(words) == [words |-> words]
Json(list) == [json |-> list]

BookIds == 1..MaxBook
UserIds == 1..MaxUser
Scores == {1, 5}        \* a Rating.score is 1..5: the lowest and the highest

\* What a catalog entry may carry besides its id.
DragonBall ==
    [title |-> Str(<<"dragon", "ball">>),
     authors |-> Json(<< <<"akira", "toriyama">> >>),
     categories |-> Json(<< <<"manga">>, <<"action">> >>),
     description |-> None,
     is_manga |-> TRUE, is_novel |-> FALSE]

DragonQuest ==
    [title |-> Str(<<"dragon", "quest", "novel">>),
     authors |-> None,
     categories |-> Json(<< <<"novel">>, <<"fantasy">> >>),
     description |-> Str(<<"the", "quest">>),
     is_manga |-> FALSE, is_novel |-> TRUE]

\* A title of stop words only and no other text.
It ==
    [title |-> Str(<<"it">>), authors |-> None, categories |-> None, description |-> None,
     is_manga |-> FALSE, is_novel |-> FALSE]

Shelf == {DragonBall, DragonQuest, It}

BookRows == {[id |-> i] @@ e : i \in BookIds, e \in Shelf}

DistinctIds(c) == \A i, j \in DOMAIN c : i # j => c[i].id # c[j].id

\* Book.query.all(): any sequence of Book rows with distinct primary keys.
Catalogs == UNION {{c \in [1..n -> BookRows] : DistinctIds(c)} : n \in 0..MaxBook}

RatingRows == [user_id : UserIds, book_id : BookIds, score : Scores]

OnePerPair(rs) ==
    \A r, q \in rs : (r.user_id = q.user_id /\ r.book_id = q.book_id) => r = q

\* Rating.query.all(): Rating rows, at most one for a user and a book.
RatingSets == {rs \in SUBSET RatingRows : OnePerPair(rs)}

-----------------------------------------------------------------------------
(* fit(), lines 29-45: the catalog frame. *)

\* json.loads(column) if column else []
JsonList(column) == IF column # None THEN column.json ELSE <<>>

\* column or ''
OrEmpty(column) == IF column # None THEN column.words ELSE <<>>

BooksData(books) ==
    [i \in 1..Len(books) |->
        [id |-> books[i].id,
         title |-> books[i].title.words,
         authors |-> Concat(JsonList(books[i].authors)),
         categories |-> Concat(JsonList(books[i].categories)),
         description |-> OrEmpty(books[i].description),
         is_manga |-> books[i].is_manga,
         is_novel |-> books[i].is_novel]]

BookColumns == {"id", "title", "authors", "categories", "description", "is_manga", "is_novel"}

\* pd.DataFrame(rows): a frame built from no rows has no columns either.
DataFrame(rows) == [columns |-> IF rows = <<>> THEN {} ELSE BookColumns, rows |-> rows]

\* self.books_df['content'] = title + ' ' + authors + ' ' + categories + ' ' + description
WithContent(df) ==
    [columns |-> df.columns \cup {"content"},
     rows |-> [i \in 1..Len(df.rows) |->
                 df.rows[i] @@
                 [content |-> df.rows[i].title \o df.rows[i].authors \o
                              df.rows[i].categories \o df.rows[i].description]]]

-----------------------------------------------------------------------------
(* fit(), lines 56-60: TfidfVectorizer.fit_transform and cosine_similarity. *)

\* stop_words='english', as far as the words of the model go
StopWords == {"the", "it", "of", "and"}

Tokens(doc) == SelectSeq(doc, LAMBDA w : w \notin StopWords)

Terms(docs) == UNION {Range(Tokens(docs[i])) : i \in 1..Len(docs)}

Tf(t, doc) == Cardinality({k \in 1..Len(doc) : doc[k] = t})

Df(t, docs) == Cardinality({i \in 1..Len(docs) : Tf(t, docs[i]) > 0})

CorpusCount(t, docs) == SumSeq([i \in 1..Len(docs) |-> Tf(t, docs[i])])

\* The max_features most frequent terms of the corpus.
Vocabulary(docs) ==
    IF Cardinality(Terms(docs)) <= max_features THEN Terms(docs)
    ELSE CHOOSE V \in SUBSET Terms(docs) :
            /\ Cardinality(V) = max_features
            /\ \A t \in V, u \in Terms(docs) \ V : CorpusCount(t, docs) >= CorpusCount(u, docs)

\* ln(1), ln(2), ... in tenths
LnTenths == <<0, 7, 11, 14, 16, 18, 19, 21, 22, 23, 24, 25>>

\* idf(t) = ln((1 + n) / (1 + df(t))) + 1, in tenths
Idf(t, docs) == IdfUnit + LnTenths[1 + Len(docs)] - LnTenths[1 + Df(t, docs)]

\* The tf-idf weight of every term of the vocabulary in a document.
TfidfRow(vocab, idf, doc) ==
    Eager([k \in 1..Len(vocab) |-> Tf(vocab[k], doc) * idf[k]])

Dot(a, b) == SumSeq([k \in 1..Len(a) |-> a[k] * b[k]])

\* The cosine of two vectors; a zero vector has similarity 0 with everything.
Cosine(a, b) ==
    LET na == Dot(a, a)
        nb == Dot(b, b)
    IN  IF na = 0 \/ nb = 0 THEN 0 ELSE (Dot(a, b) * Scale) \div Isqrt(na * nb)

\* fit_transform raises ValueError("empty vocabulary") when no document has a term.
EmptyVocabulary(docs) == Vocabulary(docs) = {}

\* The matrix of the cosines of the tf-idf rows of the documents.
CosineSimilarity(docs) ==
    LET vocab == SetToSeq(Vocabulary(docs))
        idf == Eager([k \in 1..Len(vocab) |-> Idf(vocab[k], docs)])
        rows == Eager([i \in 1..Len(docs) |-> TfidfRow(vocab, idf, docs[i])])
    IN  Eager([i \in 1..Len(docs) |->
                 Eager([j \in 1..Len(docs) |-> Cosine(rows[i], rows[j])])])

-----------------------------------------------------------------------------
(* fit(), lines 62-84: the rating matrix and the neighbour index. *)

\* pivot_table(index='user_id', columns='book_id', values='score', fill_value=0):
\* sorted labels, the mean of the scores of a cell, 0 where there is none.
PivotCell(ratings, u, b) ==
    LET hits == SetToSeq({r \in ratings : r.user_id = u /\ r.book_id = b})
    IN  IF hits = <<>> THEN 0
        ELSE SumSeq([k \in 1..Len(hits) |-> hits[k].score]) \div Len(hits)

PivotTable(ratings) ==
    LET index == SortedInts({r.user_id : r \in ratings})
        columns == SortedInts({r.book_id : r \in ratings})
    IN  [index |-> index,
         columns |-> columns,
         values |-> [i \in 1..Len(index) |->
                       [j \in 1..Len(columns) |-> PivotCell(ratings, index[i], columns[j])]]]

\* NearestNeighbors(metric='cosine', algorithm='brute', n_neighbors=...).fit(X)
NearestNeighbors(X, n_neighbors) == [fit_X |-> X, n_neighbors |-> n_neighbors]

-----------------------------------------------------------------------------
(* fit() as the steps in which it writes the fields of the engine.  An     *)
(* engine value e is the record of the four fields; a step gives the       *)
(* fields after it and whether it raised.                                  *)

Untrained ==
    [books_df |-> None, content_similarity_matrix |-> None,
     ratings_matrix |-> None, knn_model |-> None]

Engine ==
    [books_df |-> books_df, content_similarity_matrix |-> content_similarity_matrix,
     ratings_matrix |-> ratings_matrix, knn_model |-> knn_model]

Step(e, result) == [state |-> e, result |-> result]

\* Lines 29-45 with books_data kept from call to call: the rows of this call
\* are appended to the rows of the frame the engine holds.
FitFrame_KeepsEarlierRows(e, books) ==
    Step([e EXCEPT !.books_df =
            DataFrame((IF e.books_df = None THEN <<>> ELSE e.books_df.rows) \o BooksData(books))],
         Ok(None))

\* lines 29-45
FitFrame(e, books) == Step([e EXCEPT !.books_df = DataFrame(BooksData(books))], Ok(None))

\* lines 47-60
FitContent(e) ==
    IF Len(e.books_df.rows) > 0
    THEN LET df == WithContent(e.books_df)
             docs == [i \in 1..Len(df.rows) |-> df.rows[i].content]
         IN  IF EmptyVocabulary(docs)
             THEN Step([e EXCEPT !.books_df = df], Raise("ValueError"))
             ELSE Step([e EXCEPT !.books_df = df,
                                 !.content_similarity_matrix = Array(CosineSimilarity(docs))],
                       Ok(None))
    ELSE Step(e, Ok(None))

\* lines 63-78
FitRatings(e, ratings) ==
    IF ratings # {}
    THEN Step([e EXCEPT !.ratings_matrix = PivotTable(ratings)], Ok(None))
    ELSE Step(e, Ok(None))

\* lines 81-84, inside "if ratings:"
FitKnn(e, ratings) ==
    IF ratings # {} /\ Len(e.ratings_matrix.index) > 0
    THEN Step([e EXCEPT !.knn_model =
                 NearestNeighbors(e.ratings_matrix.values,
                                  Min(KnnNeighbors, Len(e.ratings_matrix.index)))],
              Ok(None))
    ELSE Step(e, Ok(None))

\* fit(books, ratings) run from beginning to end on the engine e.
Fit(e, books, ratings) ==
    LET s1 == FitFrame(e, books)
        s2 == FitContent(s1.state)
        s3 == FitRatings(s2.state, ratings)
        s4 == FitKnn(s3.state, ratings)
    IN  IF ~s2.result.ok THEN s2 ELSE s4

-----------------------------------------------------------------------------
(* get_content_based_recommendations, lines 86-125. *)

\* the positions of the frame whose id is book_id
RowsWithId(df, book_id) == {i \in 1..Len(df.rows) : df.rows[i].id = book_id}

\* list(enumerate(matrix[book_idx]))
Enumerate(row) == [i \in 1..Len(row) |-> [idx |-> i, score |-> row[i]]]

\* lines 107-110: sorted by descending score, then [1:top_n+1]
TopSimilar(row, top_n) == PySlice(SortedDesc(Enumerate(row)), 1, top_n + 1)

ContentBased(e, book_id, top_n) ==
    IF e.books_df = None \/ e.content_similarity_matrix = None THEN Ok(<<>>)
    ELSE IF "id" \notin e.books_df.columns THEN Ok(<<>>)            \* KeyError, caught
    ELSE IF RowsWithId(e.books_df, book_id) = {} THEN Ok(<<>>)      \* IndexError, caught
    ELSE
      LET book_idx == CHOOSE i \in RowsWithId(e.books_df, book_id) :
                          \A j \in RowsWithId(e.books_df, book_id) : i <= j
          matrix == e.content_similarity_matrix.array
      IN  IF book_idx > Len(matrix) THEN Ok(<<>>)                   \* IndexError, caught
          ELSE
            LET sim_scores == TopSimilar(matrix[book_idx], top_n)
            IN  IF \E k \in 1..Len(sim_scores) : sim_scores[k].idx > Len(e.books_df.rows)
                THEN Ok(<<>>)                                       \* IndexError, caught
                ELSE Ok([k \in 1..Len(sim_scores) |->
                           [book_id |-> e.books_df.rows[sim_scores[k].idx].id,
                            score |-> sim_scores[k].score]])

-----------------------------------------------------------------------------
(* get_collaborative_recommendations, lines 127-175. *)

Position(seq, x) == CHOOSE i \in 1..Len(seq) : seq[i] = x

\* kneighbors asked for every row of the fitted matrix, whatever n_neighbors
KNeighbors_AllRows(knn, row, n_neighbors) ==
    SortedDesc([i \in 1..Len(knn.fit_X) |->
                  [idx |-> i, score |-> Cosine(row, knn.fit_X[i])]])

\* kneighbors(row, n_neighbors): the n_neighbors rows of the fitted matrix
\* nearest to row by cosine distance, as [idx, score = 1 - distance].
KNeighbors(knn, row, n_neighbors) ==
    PySlice(SortedDesc([i \in 1..Len(knn.fit_X) |->
                          [idx |-> i, score |-> Cosine(row, knn.fit_X[i])]]),
            0, n_neighbors)

\* np.mean(rows, axis=0)[j]: every neighbour counts alike
WeightedAverage_Unweighted(rows, weights, j) ==
    (SumSeq([i \in 1..Len(rows) |-> rows[i][j]]) * Scale) \div Len(rows)

\* np.average(rows, axis=0, weights=weights)[j]
WeightedAverage(rows, weights, j) ==
    (SumSeq([i \in 1..Len(rows) |-> weights[i] * rows[i][j]]) * Scale) \div SumSeq(weights)

\* Lines 159-171 with the rated test "user_rated_books[book_id] >= 3" in place
\* of "> 0": a book the user scored 1 or 2 counts as not rated.
Unrated_LowScoreCountsAsUnrated(matrix, user_idx, weighted_ratings, top_n) ==
    LET keep == SelectSeq([j \in 1..Len(matrix.columns) |->
                             [book_id |-> matrix.columns[j], score |-> weighted_ratings[j],
                              rated |-> matrix.values[user_idx][j] >= 3]],
                          LAMBDA c : ~c.rated /\ c.score > 0)
        recommendations == [k \in 1..Len(keep) |->
                              [book_id |-> keep[k].book_id, score |-> keep[k].score]]
    IN  PySlice(SortedDesc(recommendations), 0, top_n)

\* Lines 159-171 with the test of line 164 turned around: "book_id in
\* user_rated_books" keeps the books the user has rated.
Unrated_KeepsRated(matrix, user_idx, weighted_ratings, top_n) ==
    LET keep == SelectSeq([j \in 1..Len(matrix.columns) |->
                             [book_id |-> matrix.columns[j], score |-> weighted_ratings[j],
                              rated |-> matrix.values[user_idx][j] > 0]],
                          LAMBDA c : c.rated /\ c.score > 0)
        recommendations == [k \in 1..Len(keep) |->
                              [book_id |-> keep[k].book_id, score |-> keep[k].score]]
    IN  PySlice(SortedDesc(recommendations), 0, top_n)

\* lines 159-171
Unrated(matrix, user_idx, weighted_ratings, top_n) ==
    LET keep == SelectSeq([j \in 1..Len(matrix.columns) |->
                             [book_id |-> matrix.columns[j], score |-> weighted_ratings[j],
                              rated |-> matrix.values[user_idx][j] > 0]],
                          LAMBDA c : ~c.rated /\ c.score > 0)
        recommendations == [k \in 1..Len(keep) |->
                              [book_id |-> keep[k].book_id, score |-> keep[k].score]]
    IN  PySlice(SortedDesc(recommendations), 0, top_n)

Collaborative(e, user_id, top_n) ==
    IF e.ratings_matrix = None \/ e.knn_model = None THEN Ok(<<>>)
    ELSE IF user_id \notin Range(e.ratings_matrix.index) THEN Ok(<<>>)
    ELSE
      LET matrix == e.ratings_matrix
          user_idx == Position(matrix.index, user_id)
          user_ratings == matrix.values[user_idx]
          n_neighbors == Min(KnnNeighbors, Len(matrix.index))
      IN  IF \/ Len(user_ratings) # Len(e.knn_model.fit_X[1])
             \/ n_neighbors > Len(e.knn_model.fit_X)
          THEN Raise("ValueError")               \* kneighbors rejects the query
          ELSE
            LET near == KNeighbors(e.knn_model, user_ratings, n_neighbors)
            IN  IF \E k \in 1..Len(near) : near[k].idx > Len(matrix.index)
                THEN Ok(<<>>)                    \* iloc: IndexError, caught
                ELSE
                  LET rows == [k \in 1..Len(near) |-> matrix.values[near[k].idx]]
                      weights == [k \in 1..Len(near) |-> near[k].score]
                  IN  IF SumSeq(weights) = 0
                      THEN Raise("ZeroDivisionError")   \* np.average: weights sum to zero
                      ELSE Ok(Unrated(matrix, user_idx,
                                      [j \in 1..Len(matrix.columns) |->
                                          WeightedAverage(rows, weights, j)],
                                      top_n))

-----------------------------------------------------------------------------
(* get_hybrid_recommendations, lines 177-218. *)

NoSeed == 0         \* book_id=None; "if book_id:" takes None and 0 alike

HasKey(d, key) == \E k \in 1..Len(d) : d[k].book_id = key

\* d[key] = value on a dict kept in insertion order
DictSet(d, key, value) ==
    IF HasKey(d, key)
    THEN [k \in 1..Len(d) |-> IF d[k].book_id = key THEN [d[k] EXCEPT !.score = value] ELSE d[k]]
    ELSE Append(d, [book_id |-> key, score |-> value])

DictGet(d, key) == d[CHOOSE k \in 1..Len(d) : d[k].book_id = key].score

RECURSIVE AddContent(_, _, _)
\* lines 203-205
AddContent(d, recs, content_weight) ==
    IF recs = <<>> THEN d
    ELSE AddContent(DictSet(d, Head(recs).book_id, Head(recs).score * content_weight),
                    Tail(recs), content_weight)

RECURSIVE AddCollab(_, _, _)
\* lines 208-213
AddCollab(d, recs, collaborative_weight) ==
    IF recs = <<>> THEN d
    ELSE LET rec == Head(recs)
             value == IF HasKey(d, rec.book_id)
                      THEN DictGet(d, rec.book_id) + rec.score * collaborative_weight
                      ELSE rec.score * collaborative_weight
         IN  AddCollab(DictSet(d, rec.book_id, value), Tail(recs), collaborative_weight)

\* Lines 200-213 with the two weights taken for each other: the content
\* scores weighted by 1 - content_weight, the collaborative by content_weight.
CombinedScores_WeightsSwapped(content_recs, collab_recs, content_weight) ==
    AddCollab(AddContent(<<>>, content_recs, WeightUnit - content_weight),
              collab_recs, content_weight)

\* lines 200-213
CombinedScores(content_recs, collab_recs, content_weight) ==
    AddCollab(AddContent(<<>>, content_recs, content_weight),
              collab_recs, WeightUnit - content_weight)

Hybrid(e, user_id, book_id, top_n, content_weight) ==
    LET content == IF book_id # NoSeed THEN ContentBased(e, book_id, top_n * 2) ELSE Ok(<<>>)
        collab == Collaborative(e, user_id, top_n * 2)
    IN  IF ~collab.ok THEN collab
        ELSE LET ranked == PySlice(SortedDesc(CombinedScores(content.value, collab.value,
                                                             content_weight)),
                                   0, top_n)
             IN  Ok([k \in 1..Len(ranked) |-> ranked[k].book_id])

-----------------------------------------------------------------------------
(* get_popular_books, lines 220-251. *)

NoFilter == {}      \* is_manga=None, is_novel=None; {TRUE} and {FALSE} are the values

\* df[df[column] == wanted]
FilterRows(df, keep(_)) == [df EXCEPT !.rows = SelectSeq(df.rows, keep)]

\* lines 238-241 without the second filter: is_novel is not looked at
Filtered_IgnoresNovel(df, is_manga, is_novel) ==
    IF is_manga # NoFilter THEN FilterRows(df, LAMBDA r : r.is_manga \in is_manga) ELSE df

\* lines 238-241
Filtered(df, is_manga, is_novel) ==
    LET d1 == IF is_manga # NoFilter
              THEN FilterRows(df, LAMBDA r : r.is_manga \in is_manga) ELSE df
    IN  IF is_novel # NoFilter
        THEN FilterRows(d1, LAMBDA r : r.is_novel \in is_novel) ELSE d1

\* ratings_matrix.mean(axis=0): the mean of every column over all rows
ColumnMeans(matrix) ==
    [j \in 1..Len(matrix.columns) |->
        [book_id |-> matrix.columns[j],
         score |-> (SumSeq([i \in 1..Len(matrix.index) |-> matrix.values[i][j]]) * Scale)
                   \div Len(matrix.index)]]

IsPermutation(p, n) == \A i \in 1..n : \E k \in 1..n : p[k] = i

\* sort_values(ascending=False) sorts with quicksort, which is not stable:
\* every descending arrangement of the entries is a possible outcome.
SortValuesDesc(items) ==
    {[k \in 1..Len(items) |-> items[p[k]]] :
        p \in {q \in [1..Len(items) -> 1..Len(items)] :
                 /\ IsPermutation(q, Len(items))
                 /\ \A k \in 1..(Len(items) - 1) : items[q[k]].score >= items[q[k + 1]].score}}

\* df['id'].tolist() read from the last row to the first, as if the frame
\* were sorted most recent first before it is cut.
FrameIds_LastRowFirst(df) == [i \in 1..Len(df.rows) |-> df.rows[Len(df.rows) + 1 - i].id]

FrameIds(df) == [i \in 1..Len(df.rows) |-> df.rows[i].id]

\* The outcomes get_popular_books can have.
Popular(e, top_n, is_manga, is_novel) ==
    IF e.books_df = None THEN {Ok(<<>>)}
    ELSE IF is_manga # NoFilter /\ "is_manga" \notin e.books_df.columns THEN {Raise("KeyError")}
    ELSE IF is_novel # NoFilter /\ "is_novel" \notin e.books_df.columns THEN {Raise("KeyError")}
    ELSE
      LET df == Filtered(e.books_df, is_manga, is_novel)
      IN  IF e.ratings_matrix # None /\ Len(e.ratings_matrix.index) > 0
          THEN IF Len(e.ratings_matrix.columns) > 0 /\ "id" \notin df.columns
               THEN {Raise("KeyError")}
               ELSE {Ok(PySlice(SelectSeq([k \in 1..Len(book_ratings) |-> book_ratings[k].book_id],
                                          LAMBDA b : b \in Range(FrameIds(df))),
                                0, top_n)) :
                        book_ratings \in SortValuesDesc(ColumnMeans(e.ratings_matrix))}
          ELSE IF "id" \notin df.columns THEN {Raise("KeyError")}
               ELSE {Ok(PySlice(FrameIds(df), 0, top_n))}

-----------------------------------------------------------------------------
(* The calls made on the shared engine. *)

engine_vars == <<books_df, content_similarity_matrix, ratings_matrix, knn_model>>
fit_vars == <<fit_pc, fit_call>>
history_vars == <<snapshot, ever_trained>>
db_vars == <<rating_rows, book_stats, requests, visits>>

SetEngine(e) ==
    /\ books_df' = e.books_df
    /\ content_similarity_matrix' = e.content_similarity_matrix
    /\ ratings_matrix' = e.ratings_matrix
    /\ knn_model' = e.knn_model

Book(id, edition) == [id |-> id] @@ edition
Rating(user_id, book_id, score) == [user_id |-> user_id, book_id |-> book_id, score |-> score]

\* The snapshots the whole engine is trained on: no book; one book without a
\* term; two books that share a term.
SnapshotCatalogs ==
    {<<>>, <<Book(1, It)>>, <<Book(1, DragonBall), Book(2, DragonQuest)>>}

\* No rating; two users of whom one has rated a book more; one low rating.
SnapshotRatings ==
    {{}, {Rating(1, 1, 5), Rating(2, 1, 5), Rating(2, 2, 4)}, {Rating(1, 1, 1)}}

\* The arguments the calls are made with.
QueryBooks == 1..(MaxBook + 1)      \* one id more than any catalog holds
QueryUsers == 1..(MaxUser + 1)      \* one id more than any rating holds
Seeds == {NoSeed} \cup QueryBooks
TopNs == 1..MaxTopN
Weights == {0, DefaultWeight, WeightUnit}
Filters == {NoFilter, {TRUE}, {FALSE}}

\* Arguments outside the contract: top_n <= 0, content_weight outside 0..1.
BadTopNs == {0 - 1, 0}
BadWeights == {0 - DefaultWeight, WeightUnit + DefaultWeight}

\* The rating requests of routes/reviews.py.  A request that has not come in
\* is idle; 0 stands for a local that holds nothing.
Requests == 1..MaxRequest

IdleRequest ==
    [pc |-> "idle", op |-> "none", user_id |-> 0, book_id |-> 0, score |-> 0,
     rating |-> 0, average_rating |-> 0, ratings_count |-> 0, status |-> 0]

\* Book.average_rating (default 0.0) and Book.ratings_count (default 0)
NoStats == [average_rating |-> 0, ratings_count |-> 0]

\* The requests to /for-you, /similar/<id> and /popular of
\* routes/recommendations.py.  books and ratings are the rows the database
\* holds while the request is served; fitted tells that the request has
\* called fit, partial that its query ran while a fit had not returned.
IdleVisit ==
    [pc |-> "idle", route |-> "none", user_id |-> 0, book_id |-> 0, category |-> "none",
     top_n |-> 0, books |-> <<>>, ratings |-> {}, trained |-> FALSE, fitted |-> FALSE,
     partial |-> FALSE, status |-> 0, content |-> None, hybrid |-> None, popular |-> None,
     served |-> <<>>]

Init ==
    /\ visits = [r \in Requests |-> IdleVisit]
    /\ rating_rows = {}
    /\ book_stats = [b \in BookIds |-> NoStats]
    /\ requests = [r \in Requests |-> IdleRequest]
    /\ books_df = None
    /\ content_similarity_matrix = None
    /\ ratings_matrix = None
    /\ knn_model = None
    /\ fit_pc = "idle"
    /\ fit_call = None
    /\ snapshot = None
    /\ ever_trained = FALSE
    /\ last = [op |-> "init"]

\* The call before this one was a fit() of the same snapshot, and it returned.
Again(books, ratings) ==
    /\ last.op = "fit"
    /\ last.result.ok
    /\ snapshot = [books |-> books, ratings |-> ratings]

\* recommender.fit(books, ratings), run with no other call in between.
FitCall(books, ratings) ==
    /\ fit_pc = "idle"
    /\ LET out == Fit(Engine, books, ratings)
       IN  /\ SetEngine(out.state)
           /\ last' = [op |-> "fit", result |-> out.result, again |-> Again(books, ratings)]
           /\ snapshot' = IF out.result.ok THEN [books |-> books, ratings |-> ratings] ELSE None
           /\ ever_trained' = (ever_trained \/ out.result.ok)
    /\ UNCHANGED <<fit_vars, db_vars>>

Train == \E books \in SnapshotCatalogs, ratings \in SnapshotRatings : FitCall(books, ratings)

TrainCatalog == \E books \in Catalogs : FitCall(books, {})

TrainRatings == \E ratings \in RatingSets : FitCall(<<>>, ratings)

SimilarToIn(top_ns) ==
    /\ \E book_id \in QueryBooks, top_n \in top_ns :
         last' = [op |-> "similar_to", book_id |-> book_id, top_n |-> top_n,
                  result |-> ContentBased(Engine, book_id, top_n)]
    /\ UNCHANGED <<engine_vars, fit_vars, history_vars, db_vars>>

RecommendForUserIn(top_ns) ==
    /\ \E user_id \in QueryUsers, top_n \in top_ns :
         last' = [op |-> "recommend_for_user", user_id |-> user_id, top_n |-> top_n,
                  result |-> Collaborative(Engine, user_id, top_n)]
    /\ UNCHANGED <<engine_vars, fit_vars, history_vars, db_vars>>

RecommendIn(top_ns, weights) ==
    /\ \E user_id \in QueryUsers, book_id \in Seeds, top_n \in top_ns, w \in weights :
         last' = [op |-> "recommend", user_id |-> user_id, book_id |-> book_id,
                  top_n |-> top_n, content_weight |-> w,
                  result |-> Hybrid(Engine, user_id, book_id, top_n, w)]
    /\ UNCHANGED <<engine_vars, fit_vars, history_vars, db_vars>>

\* get_popular_books without the copy of line 235, the filters of lines
\* 238-241 assigned to self.books_df.
PopularIn_FiltersInPlace(top_ns) ==
    /\ \E top_n \in top_ns, is_manga \in Filters, is_novel \in Filters :
         \E result \in Popular(Engine, top_n, is_manga, is_novel) :
            /\ last' = [op |-> "popular", top_n |-> top_n, is_manga |-> is_manga,
                        is_novel |-> is_novel, result |-> result]
            /\ books_df' = IF result.ok /\ books_df # None
                           THEN Filtered(books_df, is_manga, is_novel)
                           ELSE books_df
    /\ UNCHANGED <<content_similarity_matrix, ratings_matrix, knn_model, fit_vars, history_vars,
                   db_vars>>

PopularIn(top_ns) ==
    /\ \E top_n \in top_ns, is_manga \in Filters, is_novel \in Filters :
         \E result \in Popular(Engine, top_n, is_manga, is_novel) :
            last' = [op |-> "popular", top_n |-> top_n, is_manga |-> is_manga,
                     is_novel |-> is_novel, result |-> result]
    /\ UNCHANGED <<engine_vars, fit_vars, history_vars, db_vars>>

SimilarTo == SimilarToIn(TopNs)
RecommendForUser == RecommendForUserIn(TopNs)
Recommend == RecommendIn(TopNs, Weights)
PopularBooks == PopularIn(TopNs)

\* The whole engine, one call after the other.
Next == Train \/ SimilarTo \/ RecommendForUser \/ Recommend \/ PopularBooks

Spec == Init /\ [][Next]_vars

\* The content feature index over all catalogs.
NextContent == TrainCatalog \/ SimilarTo

SpecContent == Init /\ [][NextContent]_vars

\* The collaborative model over all rating sets.
NextCollab == TrainRatings \/ RecommendForUser

SpecCollab == Init /\ [][NextCollab]_vars

-----------------------------------------------------------------------------
(* fit() on the shared instance while other requests query it: the call    *)
(* writes one field after the other, and a query may run between any two   *)
(* of the writes.                                                          *)

InFit == [op |-> "fit", result |-> None]

\* lines 29-45: self.books_df is replaced
FitBegin ==
    /\ fit_pc = "idle"
    /\ \E books \in SnapshotCatalogs, ratings \in SnapshotRatings :
         /\ SetEngine(FitFrame(Engine, books).state)
         /\ fit_call' = [books |-> books, ratings |-> ratings, before |-> Engine,
                         again |-> Again(books, ratings)]
    /\ fit_pc' = "content"
    /\ snapshot' = None
    /\ last' = InFit
    /\ UNCHANGED <<ever_trained, db_vars>>

\* lines 47-60: the content column and self.content_similarity_matrix
FitContentStep ==
    /\ fit_pc = "content"
    /\ LET out == FitContent(Engine)
       IN  /\ SetEngine(out.state)
           /\ IF out.result.ok
              THEN /\ fit_pc' = "ratings"
                   /\ last' = InFit
                   /\ UNCHANGED fit_call
              ELSE /\ fit_pc' = "idle"
                   /\ last' = [op |-> "fit", result |-> out.result, again |-> fit_call.again]
                   /\ fit_call' = None
    /\ UNCHANGED <<history_vars, db_vars>>

\* lines 63-78: self.ratings_matrix
FitRatingsStep ==
    /\ fit_pc = "ratings"
    /\ SetEngine(FitRatings(Engine, fit_call.ratings).state)
    /\ fit_pc' = "knn"
    /\ last' = InFit
    /\ UNCHANGED <<fit_call, history_vars, db_vars>>

\* lines 81-84: self.knn_model, and fit() returns
FitKnnStep ==
    /\ fit_pc = "knn"
    /\ SetEngine(FitKnn(Engine, fit_call.ratings).state)
    /\ fit_pc' = "idle"
    /\ fit_call' = None
    /\ snapshot' = [books |-> fit_call.books, ratings |-> fit_call.ratings]
    /\ ever_trained' = TRUE
    /\ last' = [op |-> "fit", result |-> Ok(None), again |-> fit_call.again]
    /\ UNCHANGED db_vars

\* recommend() with the default content_weight, as the routes call it
RecommendDefault == RecommendIn(TopNs, {DefaultWeight})

NextConc ==
    \/ FitBegin \/ FitContentStep \/ FitRatingsStep \/ FitKnnStep
    \/ SimilarTo \/ RecommendForUser \/ RecommendDefault \/ PopularBooks

SpecConc == Init /\ [][NextConc]_vars

-----------------------------------------------------------------------------
(* The queries called with arguments outside the contract. *)

SimilarToBadTopN == SimilarToIn(BadTopNs)
RecommendForUserBadTopN == RecommendForUserIn(BadTopNs)
RecommendBadTopN == RecommendIn(BadTopNs, {DefaultWeight})
RecommendBadWeight == RecommendIn(TopNs, BadWeights)
PopularBadTopN == PopularIn(BadTopNs)

NextArgs ==
    \/ Train
    \/ SimilarToBadTopN \/ RecommendForUserBadTopN \/ PopularBadTopN
    \/ RecommendBadTopN \/ RecommendBadWeight

SpecArgs == Init /\ [][NextArgs]_vars

-----------------------------------------------------------------------------
(* get_hybrid_recommendations over snapshots in which the two candidate     *)
(* lists meet: a seed with a neighbour of similarity 0.070, of similarity   *)
(* 0, and of similarity 1; a user whose neighbour has rated book 2 more,    *)
(* and one whose neighbour has rated book 1 more.                           *)

HybridCatalogs ==
    {<<Book(1, DragonBall), Book(2, DragonQuest)>>,
     <<Book(1, DragonBall), Book(2, It)>>,
     <<Book(1, DragonBall), Book(2, DragonBall)>>}

HybridRatings ==
    {{},
     {Rating(1, 1, 5), Rating(2, 1, 5), Rating(2, 2, 4)},
     {Rating(1, 2, 5), Rating(2, 1, 5), Rating(2, 2, 4)}}

\* content_weight 0, 0.25, 0.5, 0.75 and 1
HybridWeights ==
    {0, DefaultWeight \div 2, DefaultWeight, DefaultWeight + DefaultWeight \div 2, WeightUnit}

TrainHybrid == \E books \in HybridCatalogs, ratings \in HybridRatings : FitCall(books, ratings)

RecommendWeighted == RecommendIn(TopNs, HybridWeights)

NextHybrid == TrainHybrid \/ RecommendWeighted

SpecHybrid == Init /\ [][NextHybrid]_vars

-----------------------------------------------------------------------------
(* get_popular_books on an engine that was never given a rating, over all   *)
(* catalogs.                                                                *)

NextFallback == TrainCatalog \/ PopularBooks

SpecFallback == Init /\ [][NextFallback]_vars

-----------------------------------------------------------------------------
(* get_content_based_recommendations over catalogs of one book more than    *)
(* MaxBook, so that the list it returns has entries to order: every choice  *)
(* of texts, with the ids ascending along the rows and with the highest id  *)
(* in the first row.                                                        *)

ShelfRows == 1..(MaxBook + 1)

IdOrders ==
    {[i \in ShelfRows |-> i],
     [i \in ShelfRows |-> ((i + MaxBook - 1) % (MaxBook + 1)) + 1]}

ShelfCatalogs ==
    {[i \in ShelfRows |-> Book(ids[i], texts[i])] : ids \in IdOrders, texts \in [ShelfRows -> Shelf]}

TrainShelf == \E books \in ShelfCatalogs : FitCall(books, {})

NextSimilar == TrainShelf \/ SimilarTo

SpecSimilar == Init /\ [][NextSimilar]_vars

-----------------------------------------------------------------------------
(* get_collaborative_recommendations on the snapshots of the whole engine, *)
(* called with its default top_n as well.                                   *)

RecommendForUserDefault == RecommendForUserIn({DefaultTopN})

NextScenario == Train \/ RecommendForUser \/ RecommendForUserDefault

SpecScenario == Init /\ [][NextScenario]_vars

-----------------------------------------------------------------------------
(* rate_book and delete_rating of routes/reviews.py, served concurrently:   *)
(* the application runs threaded, and a handler reads and commits in        *)
(* several statements, between which another request may read or commit.    *)

\* a score the form may carry: 1..5, or one that line 136 or 141 rejects
RequestScores == Scores \cup {0, 6}

\* the query of lines 147-150 and 187-190 finding no row, whatever is stored
FirstRating_FindsNone(user_id, book_id) == {0}

\* Rating.query.filter_by(user_id=..., book_id=...).first(): the id of a row
\* of the pair, 0 for None
FirstRating(user_id, book_id) ==
    IF \E row \in rating_rows : row.user_id = user_id /\ row.book_id = book_id
    THEN {row.id : row \in {x \in rating_rows : x.user_id = user_id /\ x.book_id = book_id}}
    ELSE {0}

\* the primary key of an added row: one that no row stored has
NewRatingId ==
    CHOOSE i \in 1..(Cardinality(rating_rows) + 1) :
        /\ \A row \in rating_rows : row.id # i
        /\ \A k \in 1..(i - 1) : \E row \in rating_rows : row.id = k

Respond(r, op, user_id, book_id, score, status) ==
    requests' = [requests EXCEPT ![r] =
                    [IdleRequest EXCEPT !.pc = "done", !.op = op, !.user_id = user_id,
                                        !.book_id = book_id, !.score = score,
                                        !.status = status]]

db_unrelated == <<engine_vars, fit_vars, history_vars, last, visits>>

\* rate_book, lines 131-150: the book, the score, the rating of the user
RateBookBegin(r) ==
    /\ requests[r].pc = "idle"
    /\ \E user_id \in UserIds, book_id \in QueryBooks, score \in RequestScores :
         IF book_id \notin BookIds
         THEN Respond(r, "rate_book", user_id, book_id, score, 404)
         ELSE IF score < 1 \/ score > 5
         THEN Respond(r, "rate_book", user_id, book_id, score, 400)
         ELSE \E rating \in FirstRating(user_id, book_id) :
                 requests' = [requests EXCEPT ![r] =
                                 [IdleRequest EXCEPT !.pc = "write", !.op = "rate_book",
                                                     !.user_id = user_id, !.book_id = book_id,
                                                     !.score = score, !.rating = rating]]
    /\ UNCHANGED <<rating_rows, book_stats, db_unrelated>>

\* rate_book, lines 152-166: the score is written to the row found, or a row
\* is added, and the session is committed.  The UPDATE of a row that is gone
\* matches nothing, and the flush raises StaleDataError; the store holds one
\* rating per (user, book) pair, and the INSERT of a second raises
\* IntegrityError.  Neither is caught: the request is answered 500.
RateBookWrite(r) ==
    LET q == requests[r]
        gone == q.rating # 0 /\ ~\E row \in rating_rows : row.id = q.rating
        taken == q.rating = 0 /\ \E row \in rating_rows :
                                    row.user_id = q.user_id /\ row.book_id = q.book_id
    IN  /\ q.pc = "write"
        /\ q.op = "rate_book"
        /\ IF gone \/ taken
           THEN /\ requests' = [requests EXCEPT ![r].pc = "done", ![r].status = 500]
                /\ UNCHANGED rating_rows
           ELSE /\ rating_rows' =
                     IF q.rating # 0
                     THEN {IF row.id = q.rating THEN [row EXCEPT !.score = q.score] ELSE row :
                              row \in rating_rows}
                     ELSE rating_rows \cup {[id |-> NewRatingId, user_id |-> q.user_id,
                                              book_id |-> q.book_id, score |-> q.score]}
                /\ requests' = [requests EXCEPT ![r].pc = "average"]
        /\ UNCHANGED <<book_stats, db_unrelated>>

\* delete_rating, lines 185-193
DeleteRatingBegin(r) ==
    /\ requests[r].pc = "idle"
    /\ \E user_id \in UserIds, book_id \in QueryBooks :
         IF book_id \notin BookIds
         THEN Respond(r, "delete_rating", user_id, book_id, 0, 404)
         ELSE \E rating \in FirstRating(user_id, book_id) :
                 IF rating = 0
                 THEN Respond(r, "delete_rating", user_id, book_id, 0, 404)
                 ELSE requests' = [requests EXCEPT ![r] =
                                      [IdleRequest EXCEPT !.pc = "write", !.op = "delete_rating",
                                                          !.user_id = user_id,
                                                          !.book_id = book_id,
                                                          !.rating = rating]]
    /\ UNCHANGED <<rating_rows, book_stats, db_unrelated>>

\* delete_rating, lines 195-196; the DELETE of a row that is gone matches nothing
DeleteRatingWrite(r) ==
    LET q == requests[r]
    IN  /\ q.pc = "write"
        /\ q.op = "delete_rating"
        /\ rating_rows' = {row \in rating_rows : row.id # q.rating}
        /\ requests' = [requests EXCEPT ![r].pc = "average"]
        /\ UNCHANGED <<book_stats, db_unrelated>>

\* sum(r.score for r in ratings) / len(ratings), in fixed point
MeanScore(rows) ==
    (SumSeq([k \in 1..Cardinality(rows) |-> SetToSeq(rows)[k].score]) * Scale)
        \div Cardinality(rows)

\* Book.update_average_rating, book.py lines 34-42: the ratings of the book
\* are read and the two attributes are set on the Book object of the session.
UpdateAverageRating(r) ==
    LET q == requests[r]
        ratings == {row \in rating_rows : row.book_id = q.book_id}
    IN  /\ q.pc = "average"
        /\ requests' =
              [requests EXCEPT
                  ![r].pc = "commit",
                  ![r].average_rating = IF ratings # {} THEN MeanScore(ratings) ELSE 0,
                  ![r].ratings_count = Cardinality(ratings)]
        /\ UNCHANGED <<rating_rows, book_stats, db_unrelated>>

\* lines 170-179 and 200-202: the session is committed, the request answered
CommitAverage(r) ==
    LET q == requests[r]
    IN  /\ q.pc = "commit"
        /\ book_stats' = [book_stats EXCEPT ![q.book_id] =
                             [average_rating |-> q.average_rating,
                              ratings_count |-> q.ratings_count]]
        /\ requests' = [requests EXCEPT ![r].pc = "done", ![r].status = 200]
        /\ UNCHANGED <<rating_rows, db_unrelated>>

NextRatings ==
    \E r \in Requests :
        \/ RateBookBegin(r) \/ RateBookWrite(r)
        \/ DeleteRatingBegin(r) \/ DeleteRatingWrite(r)
        \/ UpdateAverageRating(r) \/ CommitAverage(r)

SpecRatings == Init /\ [][NextRatings]_vars

\* The rating requests served one after the other: a request comes in when
\* no other is under way, and its thread takes the next one when it is done.
RequestNext(r) ==
    /\ requests[r].pc = "done"
    /\ requests' = [requests EXCEPT ![r] = IdleRequest]
    /\ UNCHANGED <<rating_rows, book_stats, db_unrelated>>

NoOther(r) == \A o \in Requests \ {r} : requests[o].pc = "idle"

NextRatingsInTurn ==
    \E r \in Requests :
        \/ NoOther(r) /\ RateBookBegin(r)
        \/ NoOther(r) /\ RateBookWrite(r)
        \/ NoOther(r) /\ DeleteRatingBegin(r)
        \/ NoOther(r) /\ DeleteRatingWrite(r)
        \/ NoOther(r) /\ UpdateAverageRating(r)
        \/ NoOther(r) /\ CommitAverage(r)
        \/ NoOther(r) /\ RequestNext(r)

SpecRatingsInTurn == Init /\ [][NextRatingsInTurn]_vars

-----------------------------------------------------------------------------
(* POST /recommendations/train of routes/recommendations.py, on the         *)
(* recommender every route shares.                                           *)

\* who sends the request: nobody logged in, a member, an admin
CurrentUsers ==
    {[is_authenticated |-> FALSE, is_admin |-> FALSE],
     [is_authenticated |-> TRUE, is_admin |-> FALSE],
     [is_authenticated |-> TRUE, is_admin |-> TRUE]}

\* the answer of the route; fitted tells whether the request called fit
TrainAnswer(current_user, status, fitted) ==
    [op |-> "train", current_user |-> current_user, status |-> status, fitted |-> fitted]

\* lines 20-25: Book.query.all(), Rating.query.all(), recommender.fit
TrainFit(current_user, books, ratings, status) ==
    LET out == Fit(Engine, books, ratings)
    IN  /\ SetEngine(out.state)
        /\ last' = TrainAnswer(current_user,
                               IF status # 200 THEN status
                               ELSE IF out.result.ok THEN 200 ELSE 500,
                               TRUE)
        /\ snapshot' = IF out.result.ok THEN [books |-> books, ratings |-> ratings] ELSE None
        /\ ever_trained' = (ever_trained \/ out.result.ok)
        /\ UNCHANGED <<fit_vars, db_vars>>

TrainRefused(current_user, status) ==
    /\ last' = TrainAnswer(current_user, status, FALSE)
    /\ UNCHANGED <<engine_vars, fit_vars, history_vars, db_vars>>

\* the route with the rows read before the admin test, and fit called on them
train_recommender_FitsFirst ==
    /\ fit_pc = "idle"
    /\ \E current_user \in CurrentUsers, books \in SnapshotCatalogs, ratings \in SnapshotRatings :
         IF ~current_user.is_authenticated
         THEN TrainRefused(current_user, 302)
         ELSE TrainFit(current_user, books, ratings,
                       IF current_user.is_admin THEN 200 ELSE 403)

\* train_recommender, lines 13-25: login_required sends a visitor to the
\* login view, a member is answered 403, an admin's request fits
train_recommender ==
    /\ fit_pc = "idle"
    /\ \E current_user \in CurrentUsers, books \in SnapshotCatalogs, ratings \in SnapshotRatings :
         IF ~current_user.is_authenticated
         THEN TrainRefused(current_user, 302)
         ELSE IF ~current_user.is_admin
         THEN TrainRefused(current_user, 403)
         ELSE TrainFit(current_user, books, ratings, 200)

NextTrainRoute == train_recommender \/ SimilarTo \/ PopularBooks

SpecTrainRoute == Init /\ [][NextTrainRoute]_vars

-----------------------------------------------------------------------------
(* The claims. *)

QueryOps == {"similar_to", "recommend_for_user", "recommend", "popular"}

Empty == Ok(<<>>)

\* The ids a list of {book_id, score} entries names.
IdsOf(recs) == {recs[k].book_id : k \in 1..Len(recs)}

\* The engine e and the engine f give the same answer to every query.
AnswersAlike(e, f) ==
    /\ \A b \in QueryBooks, n \in TopNs : ContentBased(e, b, n) = ContentBased(f, b, n)
    /\ \A u \in QueryUsers, n \in TopNs : Collaborative(e, u, n) = Collaborative(f, u, n)
    /\ \A u \in QueryUsers, b \in Seeds, n \in TopNs, w \in Weights :
          Hybrid(e, u, b, n, w) = Hybrid(f, u, b, n, w)
    /\ \A n \in TopNs, m \in Filters, v \in Filters : Popular(e, n, m, v) = Popular(f, n, m, v)

\* C1: after train(b2, r2) has returned, whatever was trained before, every
\* query answers as on a fresh engine trained with (b2, r2) alone.
C1_TrainReplacesAll ==
    (last.op = "fit" /\ last.result.ok) =>
        AnswersAlike(Engine, Fit(Untrained, snapshot.books, snapshot.ratings).state)

\* C2: the list similar_to(book_id, n) returns never holds book_id itself.
C2_NeverItself ==
    (last.op = "similar_to" /\ last.result.ok) =>
        last.book_id \notin IdsOf(last.result.value)

\* The cell of user u and book b of the rating matrix is > 0.
RatedBy(matrix, u, b) ==
    /\ matrix # None
    /\ \E i \in 1..Len(matrix.index), j \in 1..Len(matrix.columns) :
          matrix.index[i] = u /\ matrix.columns[j] = b /\ matrix.values[i][j] > 0

\* C3: recommend_for_user(user_id, n) never returns a book whose cell in the
\* user's row of the rating matrix is > 0.
C3_NeverRated ==
    (last.op = "recommend_for_user" /\ last.result.ok) =>
        \A b \in IdsOf(last.result.value) : ~RatedBy(ratings_matrix, last.user_id, b)

\* recommend_for_user has returned a book to a user who has rated another book 1.
C3_Witness ==
    /\ last.op = "recommend_for_user"
    /\ last.result.ok
    /\ last.result.value # <<>>
    /\ \E i \in 1..Len(ratings_matrix.index), j \in 1..Len(ratings_matrix.columns) :
          ratings_matrix.index[i] = last.user_id /\ ratings_matrix.values[i][j] = 1

\* C4: a fit() that raises leaves the four fields of the engine as they were.
C4_FailedTrainKeepsState ==
    [][(last'.op = "fit" /\ ~last'.result.ok) => UNCHANGED engine_vars]_vars

\* C5: a query that runs while fit() is running finds the four fields either
\* all as they were before the call or all as the call leaves them.
C5_OldOrNew ==
    (fit_pc # "idle" /\ last.op \in QueryOps) =>
        \/ Engine = fit_call.before
        \/ Engine = Fit(fit_call.before, fit_call.books, fit_call.ratings).state

\* C6: as long as no fit() has returned, every query returns an empty list
\* and raises nothing.
C6_UntrainedEmpty ==
    (~ever_trained /\ last.op \in QueryOps) => last.result = Empty

\* C7: after a train call, similar_to of a book that is not in its catalog
\* and recommend_for_user of a user without a rating in its ratings return
\* an empty list.
C7_UnknownIdEmpty ==
    snapshot # None =>
        /\ (last.op = "similar_to" /\
            last.book_id \notin {snapshot.books[i].id : i \in 1..Len(snapshot.books)})
              => last.result = Empty
        /\ (last.op = "recommend_for_user" /\
            last.user_id \notin {r.user_id : r \in snapshot.ratings})
              => last.result = Empty

\* C8: after train with an empty catalog and no ratings every query returns
\* an empty list and raises nothing.
C8_EmptyTrainEmpty ==
    (snapshot # None /\ snapshot.books = <<>> /\ snapshot.ratings = {} /\ last.op \in QueryOps)
        => last.result = Empty

\* top_n <= 0, or a content_weight outside 0..1
BadArguments(call) ==
    \/ call.top_n <= 0
    \/ (call.op = "recommend" /\ (call.content_weight < 0 \/ call.content_weight > WeightUnit))

\* C9: a query called with a content_weight outside 0..1 or a top_n <= 0
\* raises; it returns no list.
C9_BadArgumentsRaise ==
    (last.op \in QueryOps /\ BadArguments(last)) => ~last.result.ok

\* A book of the catalog passes the filters.
Passes(book, is_manga, is_novel) ==
    /\ is_manga # NoFilter => book.is_manga \in is_manga
    /\ is_novel # NoFilter => book.is_novel \in is_novel

\* Both sub-models return nothing for some user and seed.
BothEmpty(e) ==
    \E u \in QueryUsers, b \in Seeds, n \in TopNs :
        /\ Collaborative(e, u, n) = Empty
        /\ (b = NoSeed \/ ContentBased(e, b, n) = Empty)

\* C10: in a trained state in which both sub-models return nothing for a
\* user and seed, popular returns a non-empty list whenever a book of the
\* catalog passes the filters.
C10_FallbackNonEmpty ==
    (/\ snapshot # None
     /\ last.op = "popular"
     /\ BothEmpty(Engine)
     /\ \E i \in 1..Len(snapshot.books) : Passes(snapshot.books[i], last.is_manga, last.is_novel))
        => (last.result.ok /\ last.result.value # <<>>)

\* The candidate lists a recommend call draws from the two sub-models.
ContentCandidates(call) ==
    IF call.book_id # NoSeed
    THEN ContentBased(Engine, call.book_id, call.top_n * 2).value
    ELSE <<>>

CollabCandidates(call) == Collaborative(Engine, call.user_id, call.top_n * 2).value

\* The score a list of {book_id, score} entries gives the book b.
ScoreIn(recs, b) == recs[CHOOSE k \in 1..Len(recs) : recs[k].book_id = b].score

\* C11: for a content_weight strictly between 0 and 1, a book in both
\* candidate lists has a combined score strictly greater than
\* content_score * content_weight and strictly greater than
\* collab_score * (1 - content_weight).
C11_BothBeatsEither ==
    (/\ last.op = "recommend"
     /\ last.result.ok
     /\ 0 < last.content_weight /\ last.content_weight < WeightUnit)
        => LET content == ContentCandidates(last)
               collab == CollabCandidates(last)
               combined == CombinedScores(content, collab, last.content_weight)
           IN  \A b \in IdsOf(content) \cap IdsOf(collab) :
                  /\ DictGet(combined, b) > ScoreIn(content, b) * last.content_weight
                  /\ DictGet(combined, b) >
                        ScoreIn(collab, b) * (WeightUnit - last.content_weight)

\* C12: a fit() called right after a fit() of the same books and ratings has
\* returned leaves the four fields of the engine, which are all a query
\* reads, as the first call left them, and returns as well.
C12_TrainTwice ==
    [][(last'.op = "fit" /\ last'.again) => (last'.result.ok /\ UNCHANGED engine_vars)]_vars

\* fit() has been called twice in a row with the same books and ratings.
C12_Witness ==
    /\ last.op = "fit"
    /\ last.again
    /\ last.result.ok
    /\ snapshot.books # <<>>
    /\ snapshot.ratings # {}

\* The score the combining rule gives the book b: its content score times
\* w if it is a content candidate, plus its collaborative score times 1 - w
\* if it is a collaborative candidate.
RuleScore(content, collab, w, b) ==
    (IF b \in IdsOf(content) THEN ScoreIn(content, b) * w ELSE 0)
    + (IF b \in IdsOf(collab) THEN ScoreIn(collab, b) * (WeightUnit - w) ELSE 0)

\* Where b is first met when the content candidates are read before the
\* collaborative ones.
FirstInsertion(content, collab, b) ==
    LET all == content \o collab
    IN  CHOOSE k \in 1..Len(all) :
            all[k].book_id = b /\ \A j \in 1..(k - 1) : all[j].book_id # b

\* a comes before b in the final ranking.
RanksBefore(content, collab, w, a, b) ==
    \/ RuleScore(content, collab, w, a) > RuleScore(content, collab, w, b)
    \/ /\ RuleScore(content, collab, w, a) = RuleScore(content, collab, w, b)
       /\ FirstInsertion(content, collab, a) < FirstInsertion(content, collab, b)

\* C13: recommend returns the first top_n ids of the candidates of the two
\* sub-models (2 * top_n of each, no content candidate without a seed),
\* ranked by descending combined score, equal scores in first-insertion order.
C13_HybridMap ==
    (last.op = "recommend" /\ last.result.ok) =>
        LET content == ContentCandidates(last)
            collab == CollabCandidates(last)
            w == last.content_weight
            ids == IdsOf(content) \cup IdsOf(collab)
            r == last.result.value
        IN  /\ Len(r) = Min(last.top_n, Cardinality(ids))
            /\ \A k \in 1..Len(r) : r[k] \in ids
            /\ \A k \in 1..(Len(r) - 1) : RanksBefore(content, collab, w, r[k], r[k + 1])
            /\ \A k \in 1..Len(r), b \in ids \ Range(r) : RanksBefore(content, collab, w, r[k], b)

\* recommend has ranked a collaborative candidate before a content candidate
\* that was inserted first.
C13_Witness ==
    /\ last.op = "recommend"
    /\ last.result.ok
    /\ Len(last.result.value) = 2
    /\ last.result.value[1] \in IdsOf(CollabCandidates(last)) \ IdsOf(ContentCandidates(last))
    /\ last.result.value[2] \in IdsOf(ContentCandidates(last))

\* The ids of the rows of the catalog frame that pass the filters.
PassingIds(df, is_manga, is_novel) ==
    {df.rows[i].id : i \in {k \in 1..Len(df.rows) : Passes(df.rows[k], is_manga, is_novel)}}

\* The mean rating of the column of book b over all users; a book without a
\* column sorts behind every rated book.
MeanRating(matrix, b) ==
    IF b \in Range(matrix.columns)
    THEN ScoreIn(ColumnMeans(matrix), b)
    ELSE 0 - 1

\* C14: with a rating matrix of at least one row, popular returns the first
\* top_n of the catalog books that pass the filters, ranked by descending
\* column mean, the books without a rating column last and not left out.
C14_PopularRanksAll ==
    (/\ last.op = "popular"
     /\ last.result.ok
     /\ books_df # None
     /\ ratings_matrix # None
     /\ Len(ratings_matrix.index) > 0)
        => LET passing == PassingIds(books_df, last.is_manga, last.is_novel)
               r == last.result.value
           IN  /\ Range(r) \subseteq passing
               /\ Len(r) = Min(last.top_n, Cardinality(passing))
               /\ \A k \in 1..(Len(r) - 1) :
                     MeanRating(ratings_matrix, r[k]) >= MeanRating(ratings_matrix, r[k + 1])
               /\ \A k \in 1..Len(r), b \in passing \ Range(r) :
                     MeanRating(ratings_matrix, r[k]) >= MeanRating(ratings_matrix, b)

RowOf(df, b) == CHOOSE i \in 1..Len(df.rows) : df.rows[i].id = b

\* C16: similar_to(book_id, n) returns at most n entries, their scores never
\* rising along the list, entries of equal score in the order of their rows.
C16_SimilarOrdered ==
    (last.op = "similar_to" /\ last.result.ok) =>
        LET r == last.result.value
        IN  /\ Len(r) <= last.top_n
            /\ \A k \in 1..(Len(r) - 1) :
                  \/ r[k].score > r[k + 1].score
                  \/ /\ r[k].score = r[k + 1].score
                     /\ RowOf(books_df, r[k].book_id) < RowOf(books_df, r[k + 1].book_id)

\* similar_to has returned two entries of the same positive score, the one
\* of the higher id first.
C16_Witness ==
    /\ last.op = "similar_to"
    /\ last.result.ok
    /\ Len(last.result.value) = 2
    /\ last.result.value[1].score > 0
    /\ last.result.value[1].score = last.result.value[2].score
    /\ last.result.value[1].book_id > last.result.value[2].book_id

\* C17: a query leaves the four fields of the engine as they were, whether
\* it returns a list, returns an empty list or raises.
C17_QueriesReadOnly ==
    [][last'.op \in QueryOps => UNCHANGED engine_vars]_vars

\* popular has been called with a filter on a fully trained engine and has
\* returned a book.
C17_Witness ==
    /\ last.op = "popular"
    /\ last.is_manga # NoFilter
    /\ last.result.ok
    /\ last.result.value # <<>>
    /\ content_similarity_matrix # None
    /\ knn_model # None

\* user 1: book 1 = 5; user 2: book 1 = 5; user 2: book 2 = 4
ScenarioRatings == {Rating(1, 1, 5), Rating(2, 1, 5), Rating(2, 2, 4)}

\* C18: after training with the ratings of the scenario,
\* recommend_for_user(1, 10) returns book 2 with a score > 0 and does not
\* return book 1.
C18_Scenario ==
    (/\ snapshot # None
     /\ snapshot.ratings = ScenarioRatings
     /\ last.op = "recommend_for_user"
     /\ last.user_id = 1
     /\ last.top_n = DefaultTopN)
        => /\ last.result.ok
           /\ \E k \in 1..Len(last.result.value) :
                 last.result.value[k].book_id = 2 /\ last.result.value[k].score > 0
           /\ 1 \notin IdsOf(last.result.value)

\* recommend_for_user(1, 10) has returned after a training with the ratings
\* of the scenario.
C18_Witness ==
    /\ snapshot # None
    /\ snapshot.ratings = ScenarioRatings
    /\ last.op = "recommend_for_user"
    /\ last.user_id = 1
    /\ last.top_n = DefaultTopN
    /\ last.result.ok
    /\ last.result.value # <<>>

\* The two columns of the book b say what the Rating table holds for it.
StatsMatch(stats, rows, b) ==
    LET ratings == {row \in rows : row.book_id = b}
    IN  /\ stats[b].ratings_count = Cardinality(ratings)
        /\ stats[b].average_rating = IF ratings # {} THEN MeanScore(ratings) ELSE 0

\* C19: when a rate_book or delete_rating request for a book completes, the
\* book's ratings_count is the number of Rating rows stored for it and its
\* average_rating is the mean of their scores, 0.0 if there is none.  It is
\* stated for the completions that leave no other request under way, when
\* every row stored was written by a request that has completed.
C19_AverageRight ==
    [][\A r \in Requests :
          (/\ requests[r].pc # "done"
           /\ requests'[r].pc = "done"
           /\ requests'[r].status = 200
           /\ \A o \in Requests \ {r} : requests'[o].pc \in {"idle", "done"})
              => StatsMatch(book_stats', rating_rows', requests'[r].book_id)]_vars

\* C20: a POST /recommendations/train of a logged-in user who is not an admin
\* is answered 403 and leaves the trained state of the shared recommender as
\* it was; a request calls fit only if it is an admin's.
C20_TrainAdminOnly ==
    [][last'.op = "train"
          => /\ (last'.current_user.is_authenticated /\ ~last'.current_user.is_admin)
                    => (last'.status = 403 /\ UNCHANGED engine_vars)
             /\ last'.fitted => last'.current_user.is_admin]_vars

\* a member's request refused on a recommender that an admin had trained
C20_Witness ==
    /\ last.op = "train"
    /\ last.current_user.is_authenticated
    /\ ~last.current_user.is_admin
    /\ last.status = 403
    /\ ever_trained
    /\ books_df # None
    /\ Len(books_df.rows) > 0

\* C21: a rating matrix that is present has row labels among the user ids and
\* column labels among the book ids of the ratings of the most recent train
\* call; after a train call with no ratings neither the matrix nor the
\* neighbour index is present.
C21_MatrixOfLastTrain ==
    (last.op = "fit" /\ last.result.ok) =>
        /\ ratings_matrix # None =>
              /\ Range(ratings_matrix.index) \subseteq {r.user_id : r \in snapshot.ratings}
              /\ Range(ratings_matrix.columns) \subseteq {r.book_id : r \in snapshot.ratings}
        /\ snapshot.ratings = {} => (ratings_matrix = None /\ knn_model = None)

\* C22: after any sequence of train calls a similarity matrix that is present
\* has as many rows as the catalog frame the engine holds, and after a train
\* call with an empty catalog the similarity matrix is absent.
C22_MatrixFitsFrame ==
    /\ (content_similarity_matrix # None /\ books_df # None) =>
          Len(content_similarity_matrix.array) = Len(books_df.rows)
    /\ (last.op = "fit" /\ last.result.ok /\ snapshot.books = <<>>) =>
          content_similarity_matrix = None

-----------------------------------------------------------------------------
(* get_collaborative_recommendations on rating matrices of more rows than   *)
(* the neighbour index is asked for, and of a column more than MaxBook, so  *)
(* that a row is left out of the neighbours and the list has entries to     *)
(* order.  User 1 has rated book 1; user 2 has rated otherwise; the users   *)
(* from 3 on, if there are any, have all rated alike.                       *)

CrowdSizes == {MaxUser, KnnNeighbors + 1}

\* what user 2 has rated, as <<book_id, score>>
FarChoices ==
    {{<<1, 1>>, <<MaxBook, 5>>},
     {<<1, 5>>, <<MaxBook, 5>>, <<MaxBook + 1, 5>>},
     {<<1, 5>>, <<MaxBook, 1>>, <<MaxBook + 1, 5>>},
     {<<MaxBook, 5>>}}

\* what every user from 3 on has rated
NearChoices ==
    {{<<1, 5>>}, {<<1, 5>>, <<MaxBook + 1, 1>>}, {<<1, 5>>, <<MaxBook, 1>>, <<MaxBook + 1, 1>>}}

CrowdRatings ==
    {{Rating(1, 1, 5)}
       \cup {Rating(2, c[1], c[2]) : c \in far}
       \cup {Rating(u, c[1], c[2]) : u \in (MaxUser + 1)..n, c \in near} :
        n \in CrowdSizes, far \in FarChoices, near \in NearChoices}

TrainCrowd == \E ratings \in CrowdRatings : FitCall(<<>>, ratings)

NextCrowd == TrainCrowd \/ RecommendForUser \/ RecommendForUserDefault

SpecCrowd == Init /\ [][NextCrowd]_vars

\* The similarity 1 - cosine distance of two rows of the matrix.
Similarity(matrix, i, k) == Cosine(matrix.values[i], matrix.values[k])

\* The sets of k rows nearest to row i: no row left out is nearer than one taken.
NearestSets(matrix, i, k) ==
    {N \in SUBSET (1..Len(matrix.index)) :
        /\ Cardinality(N) = k
        /\ \A n \in N, o \in (1..Len(matrix.index)) \ N :
              Similarity(matrix, i, n) >= Similarity(matrix, i, o)}

SumOver(N, f(_)) == SumSeq([k \in 1..Cardinality(N) |-> f(SetToSeq(N)[k])])

\* The average of column j over the rows N, weighted by their similarity to row i.
NeighbourAverage(matrix, i, N, j) ==
    (SumOver(N, LAMBDA n : Similarity(matrix, i, n) * matrix.values[n][j]) * Scale)
        \div SumOver(N, LAMBDA n : Similarity(matrix, i, n))

\* recs is what the rule gives for row i and the neighbours N: the columns the
\* user has not rated and whose average is positive, each with its average,
\* by descending average and then by column, the first top_n of them.
RuleOfNeighbours(matrix, i, N, top_n, recs) ==
    LET wanted == {j \in 1..Len(matrix.columns) :
                      matrix.values[i][j] = 0 /\ NeighbourAverage(matrix, i, N, j) > 0}
        Before(j, h) ==
            \/ NeighbourAverage(matrix, i, N, j) > NeighbourAverage(matrix, i, N, h)
            \/ NeighbourAverage(matrix, i, N, j) = NeighbourAverage(matrix, i, N, h) /\ j < h
    IN  /\ Len(recs) = Min(top_n, Cardinality(wanted))
        /\ \E at \in [1..Len(recs) -> wanted] :
              /\ \A k \in 1..Len(recs) :
                    /\ recs[k].book_id = matrix.columns[at[k]]
                    /\ recs[k].score = NeighbourAverage(matrix, i, N, at[k])
              /\ \A k \in 1..(Len(recs) - 1) : Before(at[k], at[k + 1])
              /\ \A k \in 1..Len(recs), j \in wanted :
                    (\A h \in 1..Len(recs) : at[h] # j) => Before(at[k], j)

\* C23: for a user of the rating matrix recommend_for_user returns the columns
\* the user has not rated whose average over the min(10, rows) nearest rows,
\* weighted by 1 - cosine distance, is positive, by descending average and
\* then by column, cut to top_n; the index is never asked for more neighbours
\* than it has rows.
C23_WeightedNeighbours ==
    (/\ last.op = "recommend_for_user"
     /\ ratings_matrix # None
     /\ last.user_id \in Range(ratings_matrix.index)) =>
        LET i == Position(ratings_matrix.index, last.user_id)
            k == Min(KnnNeighbors, Len(ratings_matrix.index))
        IN  /\ k <= Len(knn_model.fit_X)
            /\ last.result.ok
            /\ \E N \in NearestSets(ratings_matrix, i, k) :
                  RuleOfNeighbours(ratings_matrix, i, N, last.top_n, last.result.value)

\* a row was left out of the neighbours, and the list has two books of the
\* same average, in column order
C23_Witness ==
    /\ last.op = "recommend_for_user"
    /\ ratings_matrix # None
    /\ Len(ratings_matrix.index) > KnnNeighbors
    /\ last.result.ok
    /\ Len(last.result.value) = 2
    /\ last.result.value[1].score = last.result.value[2].score
    /\ last.result.value[1].book_id < last.result.value[2].book_id

-----------------------------------------------------------------------------
(* /for-you, /similar/<id> and /popular of routes/recommendations.py on the *)
(* recommender they share.  A request tests recommender.books_df, calls fit *)
(* if it is None, and then runs its query; fit writes the fields one after  *)
(* the other, and the server runs the requests in threads.                  *)

Visit(r) == visits[r]

\* Book.query.all() and Rating.query.all() while a request is served
VisitCatalogs == SnapshotCatalogs
VisitRatings == {{}, {Rating(1, 1, 5), Rating(2, 1, 5), Rating(2, 2, 4)}}

\* ?top_n= of /popular: absent, or the least
VisitTopNs == {1, RouteTopN}

VisitIds(books) == {books[i].id : i \in 1..Len(books)}

\* lines 58-61, 104-107, 152-155: the Book rows of the ids, in the order of
\* the ids, an id without a row left out
Fetch(ids, books) == SelectSeq(ids, LAMBDA id : id \in VisitIds(books))

\* the test written "if recommender.content_similarity_matrix is None:"
AfterTest_TestsMatrix(visit) ==
    [visit EXCEPT !.pc = IF content_similarity_matrix = None THEN "fit" ELSE "query",
                  !.trained = books_df # None]

\* "if recommender.books_df is None:" of lines 32, 84 and 131
AfterTest(visit) ==
    [visit EXCEPT !.pc = IF books_df = None THEN "fit" ELSE "query",
                  !.trained = books_df # None]

Answer(visit, status, served) == [visit EXCEPT !.pc = "done", !.status = status, !.served = served]

visit_unrelated == <<fit_vars, last, rating_rows, book_stats, requests>>

\* get_recommendations, lines 27-35: login_required, then the test
get_recommendations(r) ==
    /\ Visit(r).pc = "idle"
    /\ \E current_user \in CurrentUsers, user_id \in QueryUsers,
          books \in VisitCatalogs, ratings \in VisitRatings :
         visits' = [visits EXCEPT ![r] =
            IF ~current_user.is_authenticated
            THEN Answer([IdleVisit EXCEPT !.route = "for_you"], 302, <<>>)
            ELSE AfterTest([IdleVisit EXCEPT !.route = "for_you", !.user_id = user_id,
                                             !.books = books, !.ratings = ratings])]
    /\ UNCHANGED <<engine_vars, history_vars, visit_unrelated>>

\* get_similar_books, lines 78-87: get_or_404, then the test
get_similar_books(r) ==
    /\ Visit(r).pc = "idle"
    /\ \E book_id \in QueryBooks, books \in VisitCatalogs, ratings \in VisitRatings :
         visits' = [visits EXCEPT ![r] =
            IF book_id \notin VisitIds(books)
            THEN Answer([IdleVisit EXCEPT !.route = "similar", !.book_id = book_id], 404, <<>>)
            ELSE AfterTest([IdleVisit EXCEPT !.route = "similar", !.book_id = book_id,
                                             !.books = books, !.ratings = ratings])]
    /\ UNCHANGED <<engine_vars, history_vars, visit_unrelated>>

\* get_popular, lines 124-134: the arguments, then the test
get_popular(r) ==
    /\ Visit(r).pc = "idle"
    /\ \E category \in {"none", "manga", "novel"}, top_n \in VisitTopNs,
          books \in VisitCatalogs, ratings \in VisitRatings :
         visits' = [visits EXCEPT ![r] =
            AfterTest([IdleVisit EXCEPT !.route = "popular", !.category = category,
                                        !.top_n = top_n, !.books = books,
                                        !.ratings = ratings])]
    /\ UNCHANGED <<engine_vars, history_vars, visit_unrelated>>

\* recommender.fit(books, ratings) of lines 35, 87, 134; fit, lines 29-45
VisitFitFrame(r) ==
    /\ Visit(r).pc = "fit"
    /\ SetEngine(FitFrame(Engine, Visit(r).books).state)
    /\ visits' = [visits EXCEPT ![r].pc = "content", ![r].fitted = TRUE]
    /\ snapshot' = None
    /\ UNCHANGED <<ever_trained, visit_unrelated>>

\* fit, lines 47-60; what fit raises the route does not catch
VisitFitContent(r) ==
    /\ Visit(r).pc = "content"
    /\ LET out == FitContent(Engine)
       IN  /\ SetEngine(out.state)
           /\ visits' = [visits EXCEPT ![r] =
                 IF out.result.ok THEN [Visit(r) EXCEPT !.pc = "ratings"]
                 ELSE Answer(Visit(r), 500, <<>>)]
    /\ UNCHANGED <<history_vars, visit_unrelated>>

\* fit, lines 63-78
VisitFitRatings(r) ==
    /\ Visit(r).pc = "ratings"
    /\ SetEngine(FitRatings(Engine, Visit(r).ratings).state)
    /\ visits' = [visits EXCEPT ![r].pc = "knn"]
    /\ UNCHANGED <<history_vars, visit_unrelated>>

\* fit, lines 81-84, and fit returns
VisitFitKnn(r) ==
    /\ Visit(r).pc = "knn"
    /\ SetEngine(FitKnn(Engine, Visit(r).ratings).state)
    /\ visits' = [visits EXCEPT ![r].pc = "query"]
    /\ snapshot' = [books |-> Visit(r).books, ratings |-> Visit(r).ratings]
    /\ ever_trained' = TRUE
    /\ UNCHANGED visit_unrelated

\* another request is between the first assignment of its fit and its return
FitUnderWay(r) == \E o \in Requests \ {r} : Visit(o).pc \in {"content", "ratings", "knn"}

\* the book of the most recent rating of the user with a score of 4 or more:
\* any of the books the user has rated so, None if there is none
RecentRatings(visit) ==
    LET high == {x \in visit.ratings : x.user_id = visit.user_id /\ x.score >= 4}
    IN  IF high = {} THEN {NoSeed} ELSE {x.book_id : x \in high}

\* get_recommendations, lines 37-76
ForYou(visit, book_id, popular) ==
    LET hybrid == Hybrid(Engine, visit.user_id, book_id, RouteTopN, DefaultWeight)
        asked == [visit EXCEPT !.hybrid = hybrid]
    IN  IF ~hybrid.ok THEN Answer(asked, 500, <<>>)
        ELSE IF hybrid.value # <<>> THEN Answer(asked, 200, Fetch(hybrid.value, visit.books))
        ELSE IF ~popular.ok THEN Answer([asked EXCEPT !.popular = popular], 500, <<>>)
        ELSE Answer([asked EXCEPT !.popular = popular], 200,
                    Fetch(popular.value, visit.books))

\* lines 93-101: the other books whose categories hold the first category of
\* the book, in the order the database gives them
SameCategory(visit) ==
    LET book == visit.books[CHOOSE i \in 1..Len(visit.books) :
                                visit.books[i].id = visit.book_id]
        categories == JsonList(book.categories)
        similar_books ==
            SelectSeq(visit.books,
                      LAMBDA b : b.id # visit.book_id /\
                                 Head(categories) \in Range(JsonList(b.categories)))
    IN  IF categories = <<>> THEN <<>>
        ELSE PySlice([i \in 1..Len(similar_books) |-> similar_books[i].id], 0, RouteTopN)

\* get_similar_books, lines 89-122
Similar(visit) ==
    LET recommendations == ContentBased(Engine, visit.book_id, RouteTopN)
        asked == [visit EXCEPT !.content = recommendations]
    IN  IF recommendations.value = <<>> THEN Answer(asked, 200, SameCategory(visit))
        ELSE Answer(asked, 200,
                    Fetch([k \in 1..Len(recommendations.value) |->
                              recommendations.value[k].book_id],
                          visit.books))

\* get_popular, lines 136-171
PopularPage(visit, popular) ==
    IF ~popular.ok THEN Answer([visit EXCEPT !.popular = popular], 500, <<>>)
    ELSE Answer([visit EXCEPT !.popular = popular], 200, Fetch(popular.value, visit.books))

\* the query of the request and its answer
VisitQuery(r) ==
    LET visit == [Visit(r) EXCEPT !.partial = FitUnderWay(r)]
    IN  /\ visit.pc = "query"
        /\ \/ /\ visit.route = "for_you"
              /\ \E book_id \in RecentRatings(visit),
                    popular \in Popular(Engine, RouteTopN, NoFilter, NoFilter) :
                    visits' = [visits EXCEPT ![r] = ForYou(visit, book_id, popular)]
           \/ /\ visit.route = "similar"
              /\ visits' = [visits EXCEPT ![r] = Similar(visit)]
           \/ /\ visit.route = "popular"
              /\ \E popular \in Popular(Engine, visit.top_n,
                                        IF visit.category = "manga" THEN {TRUE} ELSE NoFilter,
                                        IF visit.category = "novel" THEN {TRUE} ELSE NoFilter) :
                    visits' = [visits EXCEPT ![r] = PopularPage(visit, popular)]
        /\ UNCHANGED <<engine_vars, history_vars, visit_unrelated>>

\* the thread of an answered request takes the next one
VisitNext(r) ==
    /\ Visit(r).pc = "done"
    /\ visits' = [visits EXCEPT ![r] = IdleVisit]
    /\ UNCHANGED <<engine_vars, history_vars, visit_unrelated>>

\* no other request is being served, or waits for its thread to be taken back
Alone(r) == \A o \in Requests \ {r} : Visit(o).pc = "idle"

\* The pages requested one after the other, and /train.
NextPages ==
    \/ \E r \in Requests :
          \/ Alone(r) /\ get_recommendations(r)
          \/ Alone(r) /\ get_similar_books(r)
          \/ Alone(r) /\ get_popular(r)
          \/ Alone(r) /\ VisitFitFrame(r)
          \/ Alone(r) /\ VisitFitContent(r)
          \/ Alone(r) /\ VisitFitRatings(r)
          \/ Alone(r) /\ VisitFitKnn(r)
          \/ Alone(r) /\ VisitQuery(r)
          \/ Alone(r) /\ VisitNext(r)
    \/ (\A r \in Requests : Visit(r).pc = "idle") /\ train_recommender

SpecPages == Init /\ [][NextPages]_vars

\* The pages requested by MaxRequest clients at once.
NextLazy ==
    \E r \in Requests :
        \/ get_recommendations(r) \/ get_similar_books(r) \/ get_popular(r)
        \/ VisitFitFrame(r) \/ VisitFitContent(r) \/ VisitFitRatings(r) \/ VisitFitKnn(r)
        \/ VisitQuery(r)

SpecLazy == Init /\ [][NextLazy]_vars

\* served names books of ids only, in the order ids has them
InOrderOf(served, ids) ==
    /\ Range(served) \subseteq Range(ids)
    /\ served = SelectSeq(ids, LAMBDA id : id \in Range(served))

\* C24: when the hybrid list /for-you computes for the user is empty, the
\* page serves get_popular_books(top_n=20); when it is not, the page serves
\* the hybrid list; either way the books come in the order of the ids the
\* engine returned.
C24_ForYouFallsBack ==
    \A r \in Requests :
        LET visit == Visit(r)
        IN  (/\ visit.pc = "done"
             /\ visit.route = "for_you"
             /\ visit.hybrid # None
             /\ visit.hybrid.ok) =>
                IF visit.hybrid.value = <<>>
                THEN /\ visit.popular \in Popular(Engine, RouteTopN, NoFilter, NoFilter)
                     /\ visit.popular.ok
                     /\ visit.status = 200
                     /\ visit.served = Fetch(visit.popular.value, visit.books)
                     /\ InOrderOf(visit.served, visit.popular.value)
                ELSE /\ visit.status = 200
                     /\ visit.served = Fetch(visit.hybrid.value, visit.books)
                     /\ InOrderOf(visit.served, visit.hybrid.value)

\* C25: the list recommend(user_id, seed_book_id, top_n, w) returns holds no
\* book whose cell in the user's row of the rating matrix is > 0, whichever
\* sub-model the book comes from.
C25_HybridNeverRated ==
    (last.op = "recommend" /\ last.result.ok) =>
        \A b \in Range(last.result.value) : ~RatedBy(ratings_matrix, last.user_id, b)

\* where a request stands while it calls fit
FitPcs == {"fit", "content", "ratings", "knn"}

\* C26: once books_df is not None, be the catalog empty or not, no request to
\* /for-you, /similar/<id> or /popular calls fit; from then on books_df stays
\* set, and the fields of the recommender change only by the fit that set it
\* and by the /train requests of an admin.
C26_TrainedOnce ==
    [][/\ books_df # None => books_df' # None
       /\ \A r \in Requests :
             visits'[r].trained => (~visits'[r].fitted /\ visits'[r].pc \notin FitPcs)
       /\ (books_df # None /\ engine_vars' # engine_vars) =>
             \/ /\ last'.op = "train"
                /\ last'.fitted
                /\ last'.current_user.is_admin
                /\ UNCHANGED visits
             \/ \E r \in Requests :
                   /\ ~Visit(r).trained
                   /\ Visit(r).fitted
                   /\ Visit(r).pc \in FitPcs
                   /\ visits'[r] # visits[r]]_vars

\* a recommender trained on an empty catalog has answered a request for the
\* books similar to one the database holds by now, and has not called fit
C26_Witness ==
    \E r \in Requests :
        /\ Visit(r).pc = "done"
        /\ Visit(r).route = "similar"
        /\ Visit(r).status = 200
        /\ Visit(r).trained
        /\ ~Visit(r).fitted
        /\ books_df # None
        /\ Len(books_df.rows) = 0
        /\ snapshot # None
        /\ snapshot.books # Visit(r).books

\* C27: of the requests to /for-you, /similar/<id> and /popular that come in
\* together while the recommender is untrained at most one calls fit, and
\* none runs its query while a fit has not returned.
C27_OneLazyFit ==
    /\ Cardinality({r \in Requests : Visit(r).fitted}) <= 1
    /\ \A r \in Requests : ~Visit(r).partial

\* No other row of the matrix has a rating in a column in which row i has one.
SharesNothing(matrix, i) ==
    \A k \in 1..Len(matrix.index), j \in 1..Len(matrix.columns) :
        k # i => (matrix.values[i][j] = 0 \/ matrix.values[k][j] = 0)

\* C28: for a user of the rating matrix who has no rated book in common with
\* any other user recommend_for_user returns an empty list, whatever top_n
\* and however many users and ratings there are.
C28_NothingShared ==
    (/\ last.op = "recommend_for_user"
     /\ ratings_matrix # None
     /\ last.user_id \in Range(ratings_matrix.index)
     /\ SharesNothing(ratings_matrix, Position(ratings_matrix.index, last.user_id)))
        => last.result = Empty

\* the user shares nothing with ten others, who have rated books the user has not
C28_Witness ==
    /\ last.op = "recommend_for_user"
    /\ last.top_n = DefaultTopN
    /\ ratings_matrix # None
    /\ last.user_id \in Range(ratings_matrix.index)
    /\ SharesNothing(ratings_matrix, Position(ratings_matrix.index, last.user_id))
    /\ Len(ratings_matrix.index) > KnnNeighbors
    /\ Len(ratings_matrix.columns) > 2
    /\ last.result = Empty

-----------------------------------------------------------------------------
(* get_popular_books called with top_n from 0 on, also on a catalog that    *)
(* lacks a book the ratings name.                                           *)

PopularCatalogs == SnapshotCatalogs \cup {<<Book(MaxBook, DragonQuest)>>}

TrainPopular ==
    \E books \in PopularCatalogs, ratings \in SnapshotRatings : FitCall(books, ratings)

PopularUpTo == PopularIn(0..MaxTopN)

NextPopular == TrainPopular \/ PopularUpTo

SpecPopular == Init /\ [][NextPopular]_vars

Distinct(s) == \A i, k \in 1..Len(s) : i # k => s[i] # s[k]

\* C29: on an engine that holds a non-empty catalog, popular called with a
\* top_n >= 0 and any filters returns at most top_n ids, none twice, each the
\* id of a book of the catalog that passes the filters given; a book that
\* has ratings and is not in the catalog is not returned.
C29_PopularWithinCatalog ==
    (/\ last.op = "popular"
     /\ last.top_n >= 0
     /\ books_df # None
     /\ Len(books_df.rows) > 0) =>
        /\ last.result.ok
        /\ Len(last.result.value) <= last.top_n
        /\ Distinct(last.result.value)
        /\ \A id \in Range(last.result.value) :
              \E i \in 1..Len(books_df.rows) :
                 /\ books_df.rows[i].id = id
                 /\ Passes(books_df.rows[i], last.is_manga, last.is_novel)

\* after a train call that returned, popular has returned a book under a
\* filter while another book has ratings and is not in the catalog
C29_Witness ==
    /\ last.op = "popular"
    /\ last.result.ok
    /\ last.result.value # <<>>
    /\ last.is_novel # NoFilter
    /\ snapshot # None
    /\ books_df # None
    /\ ratings_matrix # None
    /\ \E b \in Range(ratings_matrix.columns) :
          \A i \in 1..Len(books_df.rows) : books_df.rows[i].id # b

\* the rows of the pair
RowsOf(rows, user_id, book_id) == {x \in rows : x.user_id = user_id /\ x.book_id = book_id}

\* C30: when rate_book and delete_rating requests are served one after the
\* other, at most one Rating row is stored for a user and a book: rate_book
\* for a pair that has a row writes the score to that row and adds none, for
\* a pair that has none it adds one, and no request fails on a second row.
C30_OneRowPerPair ==
    [][/\ \A u \in UserIds, b \in BookIds : Cardinality(RowsOf(rating_rows', u, b)) <= 1
       /\ \A r \in Requests :
             LET q == requests[r]
             IN  (q.pc = "write" /\ q.op = "rate_book" /\ requests'[r] # q) =>
                    /\ requests'[r].status # 500
                    /\ {x.score : x \in RowsOf(rating_rows', q.user_id, q.book_id)} = {q.score}
                    /\ {x \in rating_rows' : x.user_id # q.user_id \/ x.book_id # q.book_id}
                          = {x \in rating_rows : x.user_id # q.user_id \/ x.book_id # q.book_id}
                    /\ \A x \in RowsOf(rating_rows, q.user_id, q.book_id) :
                          \E y \in rating_rows' : y.id = x.id]_vars

\* rate_book has written a new score to the row of a pair rated before,
\* beside the row of another pair
C30_Witness ==
    \E r \in Requests :
        /\ requests[r].op = "rate_book"
        /\ requests[r].pc = "done"
        /\ requests[r].status = 200
        /\ requests[r].rating # 0
        /\ Cardinality(rating_rows) > 1
        /\ \E x \in rating_rows :
              /\ x.id = requests[r].rating
              /\ x.score = requests[r].score
              /\ x.user_id = requests[r].user_id
              /\ x.book_id = requests[r].book_id

=============================================================================
